---------------------------- MODULE Spec2Model ----------------------------
(***************************************************************************)
(* Model of process_file.py: the pipeline                                  *)
(*   load_data -> calculate_losses -> compute_financial_metrics -> to_excel*)
(* over a two-section spreadsheet.                                         *)
(*                                                                         *)
(* Text is modelled as a sequence of one-character strings, so that        *)
(* str.lower, the substring test and re.findall work on characters.        *)
(* A number is a record [n, d, k] standing for n / (d * sqrt(k)), d > 0,   *)
(* k >= 1, kept in lowest terms; arithmetic is exact (the binary64         *)
(* representation error of the source's floats is not modelled).           *)
(* A spreadsheet cell is a record [t, s, v]: t = "nan" (blank), "str"      *)
(* (text s) or "num" (number v).                                           *)
(***************************************************************************)
EXTENDS Integers, Sequences, FiniteSets, TLC

\* ------------------------------------------------------------------ bounds
\* most loss-limit rows (keys after the base keys) in the choice section
MaxLoss == 2
\* most strategy rows in the strategy section
MaxStrat == 2

\* ----------------------------------------------------------------- numbers
RECURSIVE GCD(_, _)
GCD(a, b) == IF b = 0 THEN a ELSE GCD(b, a % b)

Abs(x) == IF x < 0 THEN -x ELSE x

\* n / (d * sqrt(k)) in lowest terms
Norm(n, d, k) ==
    LET g == GCD(Abs(n), d)
    IN  [n |-> n \div g, d |-> d \div g, k |-> IF n = 0 THEN 1 ELSE k]

Rat(n, d) == Norm(n, d, 1)

Zero == Rat(0, 1)

\* x * y; at most one factor carries a square root
Mul(x, y) == Norm(x.n * y.n, x.d * y.d, x.k * y.k)

\* x / y for rational y # 0
Div(x, y) == Norm(x.n * y.d, x.d * y.n, x.k)

\* x + y for rationals
Add(x, y) == Norm(x.n * y.d + y.n * x.d, x.d * y.d, 1)

\* Series.astype(int): truncation towards zero
AsInt(x) == IF x.n >= 0 THEN x.n \div x.d ELSE -((-x.n) \div x.d)

\* x / np.sqrt(i) for rational x and integer i > 0
DivSqrt(x, i) == Norm(x.n, x.d, i)

RECURSIVE SumSeq(_)
SumSeq(s) == IF s = <<>> THEN Zero ELSE Add(Head(s), SumSeq(Tail(s)))

\* DataFrame.mean(axis=1) of one row
Mean(s) == Div(SumSeq(s), Rat(Len(s), 1))

\* floor(100 * x) for x >= 0, through the square root when k > 1:
\* the largest f with (f * d)^2 * k <= (100 * n)^2
Floor100(x) ==
    IF x.k = 1 THEN (100 * x.n) \div x.d
    ELSE CHOOSE f \in 0 .. ((100 * x.n) \div x.d) :
            /\ f * f * x.d * x.d * x.k <= 10000 * x.n * x.n
            /\ (f + 1) * (f + 1) * x.d * x.d * x.k > 10000 * x.n * x.n

\* the sign of 100 * x - (Floor100(x) + 1/2): -1 below the midpoint,
\* 0 exactly halfway, 1 above
MidSign(x) ==
    LET f   == Floor100(x)
        lhs == IF x.k = 1 THEN 2 * (100 * x.n - f * x.d)
               ELSE 40000 * x.n * x.n
        rhs == IF x.k = 1 THEN x.d
               ELSE (2 * f + 1) * (2 * f + 1) * x.d * x.d * x.k
    IN  IF lhs < rhs THEN -1 ELSE IF lhs = rhs THEN 0 ELSE 1

\* a rounding that sends every tie upwards (round half up)
RoundHalfUp(x) ==
    LET f == Floor100(x)
    IN  IF MidSign(x) < 0 THEN Rat(f, 100) ELSE Rat(f + 1, 100)

\* DataFrame.round(2) on one value: np.round multiplies by 100, takes rint
\* (round half to even) and divides by 100
Round2(x) ==
    LET f == Floor100(x)
        s == MidSign(x)
    IN  IF s < 0 THEN Rat(f, 100)
        ELSE IF s > 0 THEN Rat(f + 1, 100)
        ELSE IF f % 2 = 0 THEN Rat(f, 100) ELSE Rat(f + 1, 100)

\* -------------------------------------------------------------------- text
Digits == <<"0", "1", "2", "3", "4", "5", "6", "7", "8", "9">>

IsDigit(c) == \E i \in 1 .. 10 : Digits[i] = c

DigitVal(c) == (CHOOSE i \in 1 .. 10 : Digits[i] = c) - 1

Upper == <<"A", "B", "C", "D", "E", "F", "G", "H", "I", "J", "K", "L", "M",
           "N", "O", "P", "Q", "R", "S", "T", "U", "V", "W", "X", "Y", "Z">>

Lowercase == <<"a", "b", "c", "d", "e", "f", "g", "h", "i", "j", "k", "l", "m",
               "n", "o", "p", "q", "r", "s", "t", "u", "v", "w", "x", "y", "z">>

LowerChar(c) ==
    IF \E i \in 1 .. 26 : Upper[i] = c
    THEN Lowercase[CHOOSE i \in 1 .. 26 : Upper[i] = c]
    ELSE c

\* str.lower
Lower(s) == [i \in 1 .. Len(s) |-> LowerChar(s[i])]

\* sub in s
Contains(s, sub) ==
    \E i \in 1 .. (Len(s) - Len(sub) + 1) : SubSeq(s, i, i + Len(sub) - 1) = sub

\* the end of the run of digits of s that starts at i
RECURSIVE RunEnd(_, _)
RunEnd(s, i) == IF i < Len(s) /\ IsDigit(s[i + 1]) THEN RunEnd(s, i + 1) ELSE i

\* re.findall(r"\d+|\d+\.\d+", s): the alternatives swapped, so that the
\* decimals are never taken
RECURSIVE FindAllSwapped(_, _)
FindAllSwapped(s, i) ==
    IF i > Len(s) THEN <<>>
    ELSE IF ~IsDigit(s[i]) THEN FindAllSwapped(s, i + 1)
    ELSE <<SubSeq(s, i, RunEnd(s, i))>> \o FindAllSwapped(s, RunEnd(s, i) + 1)

\* re.findall(r"\d+\.\d+|\d+", s): the matches, left to right, not overlapping.
\* At each position the first alternative (digits '.' digits) is tried before
\* the second (digits).
RECURSIVE FindAll(_, _)
FindAll(s, i) ==
    IF i > Len(s) THEN <<>>
    ELSE IF ~IsDigit(s[i]) THEN FindAll(s, i + 1)
    ELSE LET e == RunEnd(s, i)
             j == IF e + 2 <= Len(s) /\ s[e + 1] = "." /\ IsDigit(s[e + 2])
                  THEN RunEnd(s, e + 2)
                  ELSE e
         IN  <<SubSeq(s, i, j)>> \o FindAll(s, j + 1)

RECURSIVE Pow10(_)
Pow10(e) == IF e = 0 THEN 1 ELSE 10 * Pow10(e - 1)

RECURSIVE DigitsVal(_)
DigitsVal(s) ==
    IF s = <<>> THEN 0 ELSE 10 * DigitsVal(SubSeq(s, 1, Len(s) - 1)) + DigitVal(s[Len(s)])

\* float(tok) for a token of the pattern above
Float(tok) ==
    IF \E i \in 1 .. Len(tok) : tok[i] = "."
    THEN LET p == CHOOSE i \in 1 .. Len(tok) : tok[i] = "."
             f == SubSeq(tok, p + 1, Len(tok))
         IN  Rat(DigitsVal(SubSeq(tok, 1, p - 1)) * Pow10(Len(f)) + DigitsVal(f),
                 Pow10(Len(f)))
    ELSE Rat(DigitsVal(tok), 1)

RECURSIVE IntDigits(_)
IntDigits(i) ==
    IF i < 10 THEN <<Digits[i + 1]>> ELSE IntDigits(i \div 10) \o <<Digits[(i % 10) + 1]>>

\* the decimal digits of r / d, 0 <= r < d, d dividing a power of ten
RECURSIVE FracDigits(_, _)
FracDigits(r, d) ==
    IF r = 0 THEN <<>>
    ELSE <<Digits[((10 * r) \div d) + 1]>> \o FracDigits((10 * r) % d, d)

\* f"{value}" for a float value >= 0 with a finite decimal expansion:
\* repr gives the integer part, '.', and the decimals ("2.0", "3.25")
FormatFloat(x) ==
    LET f == FracDigits(x.n % x.d, x.d)
    IN  IntDigits(x.n \div x.d) \o <<".">> \o (IF f = <<>> THEN <<"0">> ELSE f)

\* ------------------------------------------------------------------ labels
AUM == <<"A", "U", "M">>
VolFactor == <<"V", "o", "l", " ", "F", "a", "c", "t", "o", "r">>
WeeklyDecayLoss == <<"W", "e", "e", "k", "l", "y", " ", "D", "e", "c", "a", "y", " ", "L", "o", "s", "s">>
StrategyName == <<"S", "t", "r", "a", "t", "e", "g", "y", " ", "N", "a", "m", "e">>
Allocation == <<"A", "l", "l", "o", "c", "a", "t", "i", "o", "n", "%">>
Vol30d == <<"3", "0", "d", " ", "V", "o", "l">>
DayConvention == <<"D", "a", "y", " ", "C", "o", "n", "v", "e", "n", "t", "i", "o", "n">>
StratScore == <<"s", "t", "r", "a", "t", "_", "s", "c", "o", "r", "e">>
RiskAdjAllocation == <<"r", "i", "s", "k", " ", "a", "d", "j", " ", "a", "l", "l", "o", "c", "a", "t", "i", "o", "n">>
SDLimitLoss == <<" ", "S", "D", " ", "l", "i", "m", "i", "t", " ", "l", "o", "s", "s">>
SDMove == <<" ", "S", "D", " ", "m", "o", "v", "e">>
SDVolMove == <<" ", "S", "D", " ", "v", "o", "l", " ", "m", "o", "v", "e">>
MaxDailyTheta == <<"M", "a", "x", " ", "D", "a", "i", "l", "y", " ", "T", "h", "e", "t", "a">>
SD == <<"s", "d">>

\* ------------------------------------------------------------------- cells
NaN == [t |-> "nan", s |-> <<>>, v |-> Zero]

Str(s) == [t |-> "str", s |-> s, v |-> Zero]

Num(v) == [t |-> "num", s |-> <<>>, v |-> v]

\* ------------------------------------------------------------------ inputs
\* the choice keys the formulas read, in sheet order, with their values
BaseRows ==
    <<  <<Str(AUM), Num(Rat(100, 1))>>,
        <<Str(VolFactor), Num(Rat(3, 2))>>,
        <<Str(WeeklyDecayLoss), Num(Rat(10, 1))>> >>

\* the leading base keys may be missing from the sheet
BaseVariants == {SubSeq(BaseRows, i, Len(BaseRows)) : i \in 1 .. Len(BaseRows)}

\* further choice keys: loss limits, and one key without the marker
LossLabels ==
    {   <<"2", ".", "0", " ", "S", "D", " ", "L", "o", "s", "s">>,
        <<"2", " ", "s", "d", " ", "l", "o", "s", "s">>,
        <<"3", ".", "2", "5", " ", "S", "D", " ", "L", "o", "s", "s">>,
        <<"M", "a", "x", " ", "5", ".", " ", "S", "d", " ", "4", ".", "5">>,
        <<"S", "D", " ", "L", "o", "s", "s">>,
        <<"C", "a", "p", " ", "9">> }

\* the value of the i-th further key
LossVals == <<Rat(5, 100), Rat(3, 100), Rat(1, 10), Rat(2, 100)>>

LossVal(i) == LossVals[((i - 1) % Len(LossVals)) + 1]

\* sequences of pairwise distinct further keys
LossSeqs ==
    {q \in UNION {[1 .. n -> LossLabels] : n \in 0 .. MaxLoss} :
        \A i, j \in 1 .. Len(q) : q[i] = q[j] => i = j}

Width == Len(<<StrategyName, Allocation, <<"S", "1">>, <<"S", "2">>, <<"S", "3">>, <<"S", "4">>, Vol30d, DayConvention>>)

Pad(row) == row \o [i \in 1 .. (Width - Len(row)) |-> NaN]

BlankRow == Pad(<<>>)

\* the header of the strategy section, with or without its 'Strategy Name' cell
HeaderRow(named) ==
    <<  Str(IF named THEN StrategyName ELSE <<"N", "a", "m", "e">>), Str(Allocation),
        Str(<<"S", "1">>), Str(<<"S", "2">>), Str(<<"S", "3">>), Str(<<"S", "4">>),
        Str(Vol30d), Str(DayConvention) >>

\* name, Allocation%, four score components, 30d Vol, Day Convention
StratRows ==
    {   <<Str(<<"A">>), Num(Rat(1, 2)), Num(Rat(1, 10)), Num(Rat(2, 10)), Num(Rat(3, 10)),
          Num(Rat(4, 10)), Num(Rat(1, 5)), Num(Rat(360, 1))>>,
        <<Str(<<"A">>), Num(Rat(1, 4)), Num(Rat(2, 10)), Num(Rat(2, 10)), Num(Rat(4, 10)),
          Num(Rat(4, 10)), Num(Rat(3, 10)), Num(Rat(721, 2))>>,
        <<Str(<<"B">>), Num(Rat(1, 4)), Num(Rat(2, 10)), Num(Rat(2, 10)), Num(Rat(4, 10)),
          Num(Rat(4, 10)), Num(Rat(3, 10)), Num(Rat(721, 2))>> }

StratSeqs == UNION {[1 .. n -> StratRows] : n \in 1 .. MaxStrat}

\* the sheet as pd.read_excel(header=None) returns it: choice rows, the blank
\* boundary row (or none), the strategy header and the strategy rows
Sheet(base, loss, blank, named, strats) ==
    [i \in 1 .. Len(base) |-> Pad(base[i])]
    \o [i \in 1 .. Len(loss) |-> Pad(<<Str(loss[i]), Num(LossVal(i))>>)]
    \o (IF blank THEN <<BlankRow>> ELSE <<>>)
    \o <<HeaderRow(named)>>
    \o strats

\* ------------------------------------------------------------------- state
VARIABLES
    df,           \* the input sheet (rows of cells, 0-based row i is df[i + 1])
    pc,           \* the statement of main to run next, "done" or "failed"
    choice_vals,  \* ChoiceValues: sequence of [key, value]
    strat_df,     \* StrategyTable: [index, columns, data]
    loss_dict,    \* LossMultiplierMap: sequence of [key, value], a dict in insertion order
    calc_data,    \* the columns of compute_financial_metrics before rounding
    calc_df,      \* MetricsTable: [index, columns, data]
    written,      \* the number of times output.xlsx was written
    err           \* <<stage, exception>> of the failure, or <<>>

vars == <<df, pc, choice_vals, strat_df, loss_dict, calc_data, calc_df, written, err>>

NoTable == [index |-> <<>>, columns |-> <<>>, data |-> <<>>]

Init ==
    /\ \E base \in BaseVariants, loss \in LossSeqs, blank \in BOOLEAN,
          named \in BOOLEAN, strats \in StratSeqs :
            df = Sheet(base, loss, blank, named, strats)
    /\ pc = "load_data"
    /\ choice_vals = <<>>
    /\ strat_df = NoTable
    /\ loss_dict = <<>>
    /\ calc_data = <<>>
    /\ calc_df = NoTable
    /\ written = 0
    /\ err = <<>>

\* an uncaught exception ends the run
Raise(stage, exc) ==
    /\ pc' = "failed"
    /\ err' = <<stage, exc>>

\* --------------------------------------------------------------- load_data
\* df[0].isna().idxmax(): the 0-based index of the first greatest value, so the
\* first blank cell of column 0, and 0 when no cell is blank
IdxMax(sheet) ==
    IF \E i \in 1 .. Len(sheet) : sheet[i][1].t = "nan"
    THEN (CHOOSE i \in 1 .. Len(sheet) :
            /\ sheet[i][1].t = "nan"
            /\ \A j \in 1 .. (i - 1) : sheet[j][1].t # "nan") - 1
    ELSE 0

\* df.head(val - 1): the choice section cut one row short
ChoiceOfShort(sheet, val) ==
    [i \in 1 .. (val - 1) |-> [key |-> sheet[i][1], value |-> sheet[i][2]]]

\* df.head(val).set_index(0)[1]
ChoiceOf(sheet, val) ==
    [i \in 1 .. val |-> [key |-> sheet[i][1], value |-> sheet[i][2]]]

\* df[val+1:]: the rows of 0-based index val + 1 and more
RowsFrom(sheet, val) == SubSeq(sheet, val + 2, Len(sheet))

\* the position of the first column labelled name, 0 if there is none
ColPos(columns, name) ==
    IF \E i \in 1 .. Len(columns) : columns[i] = Str(name)
    THEN CHOOSE i \in 1 .. Len(columns) :
            /\ columns[i] = Str(name)
            /\ \A j \in 1 .. (i - 1) : columns[j] # Str(name)
    ELSE 0

Without(row, p) == SubSeq(row, 1, p - 1) \o SubSeq(row, p + 1, Len(row))

\* strat_df.set_index('Strategy Name') on header row columns and data rows;
\* pandas does not check the new index for duplicates
SetIndex(columns, rows, p) ==
    [index |-> [i \in 1 .. Len(rows) |-> rows[i][p]],
     columns |-> Without(columns, p),
     data |-> [i \in 1 .. Len(rows) |-> Without(rows[i], p)]]

LoadData ==
    /\ pc = "load_data"
    /\ LET val  == IdxMax(df)
           rest == RowsFrom(df, val)
       IN  IF rest = <<>>
           THEN /\ Raise("load_data", "IndexError")
                /\ UNCHANGED <<choice_vals, strat_df>>
           ELSE IF ColPos(Head(rest), StrategyName) = 0
           THEN /\ Raise("load_data", "KeyError")
                /\ UNCHANGED <<choice_vals, strat_df>>
           ELSE /\ choice_vals' = ChoiceOf(df, val)
                /\ strat_df' = SetIndex(Head(rest), Tail(rest), ColPos(Head(rest), StrategyName))
                /\ pc' = "calculate_losses"
                /\ err' = err
    /\ UNCHANGED <<df, loss_dict, calc_data, calc_df, written>>

\* -------------------------------------------------------------------- dict
DictHas(d, k) == \E i \in 1 .. Len(d) : d[i].key = k

\* d[k] for a key of d (the first entry with that key)
DictGet(d, k) ==
    d[CHOOSE i \in 1 .. Len(d) :
        d[i].key = k /\ \A j \in 1 .. (i - 1) : d[j].key # k].value

\* the last position of key k in the sequence of entries e
LastEntry(e, k) ==
    CHOOSE j \in 1 .. Len(e) : e[j].key = k /\ \A h \in (j + 1) .. Len(e) : e[h].key # k

\* the positions of e that introduce a key new to d
NewKeys(d, e) ==
    {j \in 1 .. Len(e) : ~DictHas(d, e[j].key) /\ \A h \in 1 .. (j - 1) : e[h].key # e[j].key}

\* the i-th smallest element of the set of numbers P
Nth(P, i) == CHOOSE j \in P : Cardinality({h \in P : h <= j}) = i

\* d.setdefault(k, v) for every entry (k, v) of e: a known key keeps its value
DictUpdateKeepFirst(d, e) ==
    d \o [i \in 1 .. Cardinality(NewKeys(d, e)) |-> e[Nth(NewKeys(d, e), i)]]

\* d.update(e), that is d[k] = v for every entry (k, v) of e in turn: a known
\* key keeps its place and takes the last v given for it, a new key goes last
DictUpdate(d, e) ==
    [i \in 1 .. Len(d) |->
        IF DictHas(e, d[i].key)
        THEN [key |-> d[i].key, value |-> e[LastEntry(e, d[i].key)].value]
        ELSE d[i]]
    \o [i \in 1 .. Cardinality(NewKeys(d, e)) |->
            [key |-> e[Nth(NewKeys(d, e), i)].key,
             value |-> e[LastEntry(e, e[Nth(NewKeys(d, e), i)].key)].value]]

\* d[k] = v
DictSet(d, k, v) == DictUpdate(d, <<[key |-> k, value |-> v]>>)

DictKeys(d) == [i \in 1 .. Len(d) |-> d[i].key]

\* -------------------------------------------------------- calculate_losses
\* [item for item in choice_vals.index if 'sd' in item.lower()], from the
\* p-th item on
RECURSIVE SdLossNamesFrom(_, _)
SdLossNamesFrom(cv, p) ==
    IF p > Len(cv) THEN <<>>
    ELSE (IF Contains(Lower(cv[p].key.s), SD) THEN <<cv[p].key.s>> ELSE <<>>)
         \o SdLossNamesFrom(cv, p + 1)

SdLossNames(cv) == SdLossNamesFrom(cv, 1)

\* float(re.findall(r"\d+\.\d+|\d+", s)[0])
SdLoss(s) == Float(FindAll(s, 1)[1])

\* dict(zip(sd_loss_names, sd_losses))
LossDictOf(names) ==
    DictUpdate(<<>>, [i \in 1 .. Len(names) |-> [key |-> names[i], value |-> SdLoss(names[i])]])

CalculateLosses ==
    /\ pc = "calculate_losses"
    /\ \E names \in {SdLossNames(choice_vals)} :
           IF \E i \in 1 .. Len(names) : FindAll(names[i], 1) = <<>>
           THEN /\ Raise("calculate_losses", "IndexError")
                /\ UNCHANGED loss_dict
           ELSE /\ loss_dict' = LossDictOf(names)
                /\ pc' = "compute_financial_metrics"
                /\ err' = err
    /\ UNCHANGED <<df, choice_vals, strat_df, calc_data, calc_df, written>>

\* ----------------------------------------------- compute_financial_metrics
\* choice_vals[k]
Choice(cv, k) == DictGet(cv, Str(k)).v

ChoiceHas(cv, k) == DictHas(cv, Str(k))

\* strat_df[name]: the column as a sequence of numbers, one per row
Column(sdf, name) ==
    [i \in 1 .. Len(sdf.data) |-> sdf.data[i][ColPos(sdf.columns, name)].v]

\* strat_df.columns[0:4]: the window one column to the left
ScorePositionsFromZero(sdf) ==
    [i \in 1 .. (IF Len(sdf.columns) < 4 THEN Len(sdf.columns) ELSE 4) |-> i]

\* strat_df.columns[1:5]: the 1-based positions 2..5 that exist
ScorePositions(sdf) ==
    LET lo == 2
        hi == IF Len(sdf.columns) < 5 THEN Len(sdf.columns) ELSE 5
    IN  [i \in 1 .. (IF hi < lo THEN 0 ELSE hi - lo + 1) |-> lo + i - 1]

\* strat_df[strat_df.columns[1:5]].mean(axis=1)
StratScoreOf(sdf) ==
    [i \in 1 .. Len(sdf.data) |->
        Mean([j \in 1 .. Len(ScorePositions(sdf)) |-> sdf.data[i][ScorePositions(sdf)[j]].v])]

\* choice_vals['AUM'] * strat_df['Allocation%'] * strat_score
RiskAdjOf(cv, sdf) ==
    LET strat_score == StratScoreOf(sdf)
        allocation  == Column(sdf, Allocation)
    IN  [i \in 1 .. Len(sdf.data) |->
            Mul(Mul(Choice(cv, AUM), allocation[i]), strat_score[i])]

\* choice_vals[loss] * risk_adj_allocation
LimitLossOf(cv, sdf, loss) ==
    LET risk_adj_allocation == RiskAdjOf(cv, sdf)
    IN  [i \in 1 .. Len(sdf.data) |-> Mul(Choice(cv, loss), risk_adj_allocation[i])]

\* value * strat_df['30d Vol'] / np.sqrt(strat_df['Day Convention'].astype(int))
SdMoveOf(sdf, value) ==
    [i \in 1 .. Len(sdf.data) |->
        DivSqrt(Mul(value, Column(sdf, Vol30d)[i]), AsInt(Column(sdf, DayConvention)[i]))]

\* value * choice_vals['Vol Factor'] * strat_df['30d Vol']
SdVolMoveOf(cv, sdf, value) ==
    [i \in 1 .. Len(sdf.data) |->
        Mul(Mul(value, Choice(cv, VolFactor)), Column(sdf, Vol30d)[i])]

\* risk_adj_allocation * choice_vals['Weekly Decay Loss'] / strat_df['Day Convention'] / 52:
\* the parentheses of the divisor dropped
ThetaOfUnparenthesised(cv, sdf) ==
    [i \in 1 .. Len(sdf.data) |->
        Div(Div(Mul(RiskAdjOf(cv, sdf)[i], Choice(cv, WeeklyDecayLoss)),
                Column(sdf, DayConvention)[i]),
            Rat(52, 1))]

\* risk_adj_allocation * choice_vals['Weekly Decay Loss'] / (strat_df['Day Convention'] / 52)
ThetaOf(cv, sdf) ==
    LET risk_adj_allocation == RiskAdjOf(cv, sdf)
    IN  [i \in 1 .. Len(sdf.data) |->
            Div(Mul(risk_adj_allocation[i], Choice(cv, WeeklyDecayLoss)),
                Div(Column(sdf, DayConvention)[i], Rat(52, 1)))]

\* the three dictionaries the loop over loss_dict.items() fills, one
\* assignment d[name] = column per entry of loss_dict
LimitLossData(cv, sdf, ld) ==
    DictUpdate(<<>>, [e \in 1 .. Len(ld) |->
        [key |-> FormatFloat(ld[e].value) \o SDLimitLoss,
         value |-> LimitLossOf(cv, sdf, ld[e].key)]])

SdMoveData(sdf, ld) ==
    DictUpdate(<<>>, [e \in 1 .. Len(ld) |->
        [key |-> FormatFloat(ld[e].value) \o SDMove,
         value |-> SdMoveOf(sdf, ld[e].value)]])

SdVolMoveData(cv, sdf, ld) ==
    DictUpdate(<<>>, [e \in 1 .. Len(ld) |->
        [key |-> FormatFloat(ld[e].value) \o SDVolMove,
         value |-> SdVolMoveOf(cv, sdf, ld[e].value)]])

\* calc_data with the move columns merged before the limit-loss columns
CalcDataMovesFirst(cv, sdf, ld) ==
    LET base == <<[key |-> StratScore, value |-> StratScoreOf(sdf)],
                  [key |-> RiskAdjAllocation, value |-> RiskAdjOf(cv, sdf)]>>
        a == DictUpdate(base, SdMoveData(sdf, ld))
        b == DictUpdate(a, LimitLossData(cv, sdf, ld))
        c == DictUpdate(b, SdVolMoveData(cv, sdf, ld))
    IN  DictSet(c, MaxDailyTheta, ThetaOf(cv, sdf))

\* calc_data as it stands before line 67
CalcData(cv, sdf, ld) ==
    LET base == <<[key |-> StratScore, value |-> StratScoreOf(sdf)],
                  [key |-> RiskAdjAllocation, value |-> RiskAdjOf(cv, sdf)]>>
        a == DictUpdate(base, LimitLossData(cv, sdf, ld))
        b == DictUpdate(a, SdMoveData(sdf, ld))
        c == DictUpdate(b, SdVolMoveData(cv, sdf, ld))
    IN  DictSet(c, MaxDailyTheta, ThetaOf(cv, sdf))

\* the labels of index without repetition, in order of first occurrence
RECURSIVE Distinct(_)
Distinct(q) ==
    IF q = <<>> THEN <<>>
    ELSE LET r == Distinct(SubSeq(q, 1, Len(q) - 1))
         IN  IF \E i \in 1 .. Len(r) : r[i] = q[Len(q)] THEN r ELSE Append(r, q[Len(q)])

\* the last position of label in index
LastPos(index, label) ==
    CHOOSE i \in 1 .. Len(index) :
        index[i] = label /\ \A j \in (i + 1) .. Len(index) : index[j] # label

\* pd.DataFrame.from_dict(calc_data, orient='index').T.astype(float).round(2):
\* from_dict regroups the Series into one dict per index label (a repeated label
\* keeps its first place and takes the values of its last row), one column per
\* key of calc_data
FromDict(cd, index) ==
    LET labels == Distinct(index)
    IN  [index |-> labels,
         columns |-> DictKeys(cd),
         data |-> [r \in 1 .. Len(labels) |->
                    [c \in 1 .. Len(cd) |-> Round2(cd[c].value[LastPos(index, labels[r])])]]]

\* the first key or column a formula reads that is missing: <<>> if none is
MissingKey(cv, sdf, ld) ==
    LET need == <<ChoiceHas(cv, AUM),
                  ColPos(sdf.columns, Allocation) # 0,
                  ld = <<>> \/ ColPos(sdf.columns, Vol30d) # 0,
                  ld = <<>> \/ ColPos(sdf.columns, DayConvention) # 0,
                  ld = <<>> \/ ChoiceHas(cv, VolFactor),
                  ChoiceHas(cv, WeeklyDecayLoss),
                  ColPos(sdf.columns, DayConvention) # 0>>
    IN  IF \A i \in 1 .. Len(need) : need[i] THEN <<>>
        ELSE <<CHOOSE i \in 1 .. Len(need) : ~need[i] /\ \A j \in 1 .. (i - 1) : need[j]>>

\* compute_financial_metrics with the exception swallowed: a missing key
\* leaves an empty table and the run goes on to the writer
ComputeSwallowingErrors ==
    /\ pc = "compute_financial_metrics"
    /\ IF MissingKey(choice_vals, strat_df, loss_dict) # <<>>
       THEN UNCHANGED <<calc_data, calc_df>>
       ELSE /\ calc_data' = CalcData(choice_vals, strat_df, loss_dict)
            /\ calc_df' = FromDict(calc_data', strat_df.index)
    /\ pc' = "to_excel"
    /\ UNCHANGED <<df, choice_vals, strat_df, loss_dict, written, err>>

ComputeFinancialMetrics ==
    /\ pc = "compute_financial_metrics"
    /\ IF MissingKey(choice_vals, strat_df, loss_dict) # <<>>
       THEN /\ Raise("compute_financial_metrics", "KeyError")
            /\ UNCHANGED <<calc_data, calc_df>>
       ELSE /\ calc_data' = CalcData(choice_vals, strat_df, loss_dict)
            /\ calc_df' = FromDict(calc_data', strat_df.index)
            /\ pc' = "to_excel"
            /\ err' = err
    /\ UNCHANGED <<df, choice_vals, strat_df, loss_dict, written>>

\* -------------------------------------------------------------------- main
\* calc_df.to_excel('output.xlsx', index=True), then the completion message
ToExcel ==
    /\ pc = "to_excel"
    /\ written' = written + 1
    /\ pc' = "done"
    /\ UNCHANGED <<df, choice_vals, strat_df, loss_dict, calc_data, calc_df, err>>

Next ==
    \/ LoadData
    \/ CalculateLosses
    \/ ComputeFinancialMetrics
    \/ ToExcel

Spec == Init /\ [][Next]_vars

\* ================================================================== claims
Stages == {"load_data", "calculate_losses", "compute_financial_metrics"}

\* load_data has returned
Loaded == pc # "load_data" /\ (pc = "failed" => err[1] # "load_data")

\* calculate_losses has returned
Extracted == pc \in {"compute_financial_metrics", "to_excel", "done"}
                \/ (pc = "failed" /\ err[1] = "compute_financial_metrics")

\* compute_financial_metrics has returned
Computed == pc \in {"to_excel", "done"}

\* the 0-based rows of the sheet whose column 0 is blank
BlankRows == {i \in 0 .. (Len(df) - 1) : df[i + 1][1].t = "nan"}

\* k is the first blank row of column 0
FirstBlank(k) == k \in BlankRows /\ \A j \in BlankRows : k <= j

\* C1: the output file is written only after load_data, calculate_losses and
\* compute_financial_metrics have all returned without error: a run ends either
\* with every stage done and exactly one output file written, or failed in one
\* of the three stages with nothing written; a ChoiceValues without the key
\* 'AUM' never reaches the write step.
C1_WriteOnlyAfterAllStages ==
    /\ written \in {0, 1}
    /\ written = 1 <=> pc = "done"
    /\ pc \in {"to_excel", "done"} =>
        /\ err = <<>>
        /\ ChoiceHas(choice_vals, AUM)
        /\ strat_df # NoTable
        /\ calc_data = CalcData(choice_vals, strat_df, loss_dict)
        /\ calc_df = FromDict(calc_data, strat_df.index)
    /\ pc = "failed" => written = 0 /\ err[1] \in Stages
    /\ pc \in {"done", "failed", "to_excel"} \/ pc \in Stages

\* C1 witness: a run whose ChoiceValues lacks 'AUM' has failed in the
\* calculator, with no output written
C1_Witness ==
    /\ pc = "failed"
    /\ err = <<"compute_financial_metrics", "KeyError">>
    /\ choice_vals # <<>>
    /\ ~ChoiceHas(choice_vals, AUM)
    /\ written = 0

\* C2: when the first blank cell of column 0 is at row k >= 1 and load_data
\* returns, ChoiceValues has exactly k entries, entry i being (column 0,
\* column 1) of row i; row k + 1 is the strategy header; and every row after
\* k + 1 is one strategy record, keyed by its cell under 'Strategy Name'.
C2_BoundaryAtFirstBlank ==
    \A k \in 1 .. (Len(df) - 1) :
        (Loaded /\ FirstBlank(k)) =>
            /\ Len(choice_vals) = k
            /\ \A i \in 0 .. (k - 1) :
                /\ choice_vals[i + 1].key = df[i + 1][1]
                /\ choice_vals[i + 1].value = df[i + 1][2]
            /\ \E p \in 1 .. Len(df[k + 2]) :
                /\ df[k + 2][p] = Str(StrategyName)
                /\ strat_df.columns = Without(df[k + 2], p)
                /\ Len(strat_df.index) = Len(df) - (k + 2)
                /\ Len(strat_df.data) = Len(df) - (k + 2)
                /\ \A r \in 1 .. (Len(df) - (k + 2)) :
                    /\ strat_df.index[r] = df[k + 2 + r][p]
                    /\ strat_df.data[r] = Without(df[k + 2 + r], p)

\* C2 witness: load_data returned on a sheet with its boundary at row k >= 3
\* and two strategy rows
C2_Witness ==
    /\ Loaded
    /\ \E k \in 3 .. (Len(df) - 1) : FirstBlank(k) /\ Len(choice_vals) = k
    /\ Len(strat_df.index) = 2

\* C3: when no cell of column 0 is blank, load_data fails: it never returns a
\* (ChoiceValues, StrategyTable) pair.
C3_NoBoundaryFails == BlankRows = {} => ~Loaded

\* C4: load_data fails on two strategy rows of the same name, so the names of
\* a StrategyTable it returns are pairwise distinct.
C4_UniqueStrategyNames ==
    Loaded =>
        \A i \in 1 .. Len(strat_df.index) :
            Cardinality({j \in 1 .. Len(strat_df.index) :
                            strat_df.index[j] = strat_df.index[i]}) = 1

\* s is digits, or digits '.' digits
IsNumeric(s) ==
    /\ s # <<>>
    /\ \A i \in 1 .. Len(s) : IsDigit(s[i]) \/ s[i] = "."
    /\ Cardinality({i \in 1 .. Len(s) : s[i] = "."}) <= 1
    /\ IsDigit(s[1]) /\ IsDigit(s[Len(s)])

\* s[i..j] is the first numeric substring of s: it starts at the first place
\* where one can start, and is the longest one starting there
FirstNumeric(s, i, j) ==
    /\ 1 <= i /\ i <= j /\ j <= Len(s)
    /\ IsNumeric(SubSeq(s, i, j))
    /\ \A a \in 1 .. Len(s), b \in 1 .. Len(s) :
        (a <= b /\ IsNumeric(SubSeq(s, a, b))) => (i < a \/ (i = a /\ b <= j))

\* the positions of the ChoiceValues keys whose lowercase form contains "sd"
SdPositions ==
    {i \in 1 .. Len(choice_vals) :
        \E a \in 1 .. Len(choice_vals[i].key.s) - 1 :
            /\ choice_vals[i].key.s[a] \in {"s", "S"}
            /\ choice_vals[i].key.s[a + 1] \in {"d", "D"}}

\* C5: the map calculate_losses returns has as keys exactly the ChoiceValues
\* keys whose lowercase form contains 'sd', in ChoiceValues key order, each
\* mapped to the floating-point value of the first substring of the key that
\* is digits optionally followed by '.' and digits: '3.25 SD Loss' to 3.25,
\* '2 sd loss' to 2.0, and a later number in the key is ignored.
C5_LossMultiplierMap ==
    Extracted =>
        /\ Len(loss_dict) = Cardinality(SdPositions)
        /\ \A i \in 1 .. Len(loss_dict) :
            \E p \in SdPositions :
                /\ Cardinality({q \in SdPositions : q <= p}) = i
                /\ loss_dict[i].key = choice_vals[p].key.s
        /\ \A i \in 1 .. Len(loss_dict) :
            \E a, b \in 1 .. Len(loss_dict[i].key) :
                /\ FirstNumeric(loss_dict[i].key, a, b)
                /\ loss_dict[i].value = Float(SubSeq(loss_dict[i].key, a, b))
        /\ \A i \in 1 .. Len(loss_dict) :
            /\ loss_dict[i].key = <<"3", ".", "2", "5", " ", "S", "D", " ", "L", "o", "s", "s">> => loss_dict[i].value = Rat(325, 100)
            /\ loss_dict[i].key = <<"2", " ", "s", "d", " ", "l", "o", "s", "s">> => loss_dict[i].value = Rat(2, 1)
            /\ loss_dict[i].key = <<"M", "a", "x", " ", "5", ".", " ", "S", "d", " ", "4", ".", "5">> => loss_dict[i].value = Rat(5, 1)

\* C5 witness: a map with the keys '3.25 SD Loss' and 'Max 5. Sd 4.5' was
\* returned for a ChoiceValues that also holds keys without the marker
C5_Witness ==
    /\ Extracted
    /\ DictHas(loss_dict, <<"3", ".", "2", "5", " ", "S", "D", " ", "L", "o", "s", "s">>)
    /\ DictHas(loss_dict, <<"M", "a", "x", " ", "5", ".", " ", "S", "d", " ", "4", ".", "5">>)
    /\ Len(choice_vals) > Len(loss_dict)

\* the elements of q without repetition, each at its first occurrence
FirstOccurrences(q) ==
    LET P == {i \in 1 .. Len(q) : \A j \in 1 .. (i - 1) : q[j] # q[i]}
    IN  [i \in 1 .. Cardinality(P) |-> q[Nth(P, i)]]

\* the distinct multipliers of LossMultiplierMap, in its order
Multipliers == FirstOccurrences([i \in 1 .. Len(loss_dict) |-> loss_dict[i].value])

LimitLossName(m) == FormatFloat(m) \o SDLimitLoss
MoveName(m) == FormatFloat(m) \o SDMove
VolMoveName(m) == FormatFloat(m) \o SDVolMove

RECURSIVE Triples(_)
Triples(ms) ==
    IF ms = <<>> THEN <<>>
    ELSE <<LimitLossName(Head(ms)), MoveName(Head(ms)), VolMoveName(Head(ms))>>
         \o Triples(Tail(ms))

\* the three columns of each multiplier side by side
ColumnsByMultiplier ==
    <<StratScore, RiskAdjAllocation>> \o Triples(Multipliers) \o <<MaxDailyTheta>>

\* the columns grouped by kind: all limit losses, all moves, all vol moves
ColumnsByKind ==
    <<StratScore, RiskAdjAllocation>>
    \o [i \in 1 .. Len(Multipliers) |-> LimitLossName(Multipliers[i])]
    \o [i \in 1 .. Len(Multipliers) |-> MoveName(Multipliers[i])]
    \o [i \in 1 .. Len(Multipliers) |-> VolMoveName(Multipliers[i])]
    \o <<MaxDailyTheta>>

\* the strategy names of the StrategyTable are pairwise distinct
NamesDistinct ==
    \A i, j \in 1 .. Len(strat_df.index) : strat_df.index[i] = strat_df.index[j] => i = j

\* C6 as stated: one row per strategy of the StrategyTable, in its order, and
\* the columns strat_score, risk adj allocation, then for every multiplier its
\* three columns, then Max Daily Theta; 3 * n + 3 columns for n multipliers.
\* (Stated for tables of pairwise distinct strategy names, where it already
\* fails.)
C6_ColumnsByMultiplier ==
    (Computed /\ NamesDistinct) =>
        /\ calc_df.index = strat_df.index
        /\ calc_df.columns = ColumnsByMultiplier
        /\ Len(calc_df.columns) = 3 * Len(Multipliers) + 3

\* C6 amended: one row per distinct strategy name, in order of first
\* occurrence, and the columns strat_score, risk adj allocation, then the
\* '{m} SD limit loss' columns of all distinct multipliers, then their
\* '{m} SD move' columns, then their '{m} SD vol move' columns, then
\* Max Daily Theta; 3 * n + 3 columns for n distinct multipliers.
C6_ColumnsByKind ==
    Computed =>
        /\ calc_df.index = FirstOccurrences(strat_df.index)
        /\ Len(calc_df.data) = Len(calc_df.index)
        /\ \A r \in 1 .. Len(calc_df.data) : Len(calc_df.data[r]) = Len(calc_df.columns)
        /\ calc_df.columns = ColumnsByKind
        /\ Len(calc_df.columns) = 3 * Len(Multipliers) + 3
        /\ Len(Multipliers) = Cardinality({loss_dict[i].value : i \in 1 .. Len(loss_dict)})

\* C6 witness: a table for two strategies and two distinct multipliers
C6_Witness ==
    /\ Computed
    /\ Len(calc_df.index) = 2
    /\ Len(Multipliers) = 2
    /\ Len(calc_df.columns) = 9

\* c[k]: the value of the ChoiceValues entry of key k
CVal(k) == (CHOOSE i \in 1 .. Len(choice_vals) : choice_vals[i].key = Str(k))

C(k) == choice_vals[CVal(k)].value.v

\* s[name] of strategy row i
S(i, name) ==
    strat_df.data[i][CHOOSE p \in 1 .. Len(strat_df.columns) :
                        strat_df.columns[p] = Str(name)].v

\* the column of calc_data of that name, at strategy row i
Unrounded(name, i) ==
    calc_data[CHOOSE c \in 1 .. Len(calc_data) : calc_data[c].key = name].value[i]

\* the mean of the cells of strategy row i at the 0-based positions 1..4
MeanOfPositions1To4(i) ==
    Div(Add(Add(strat_df.data[i][2].v, strat_df.data[i][3].v),
            Add(strat_df.data[i][4].v, strat_df.data[i][5].v)),
        Rat(4, 1))

RiskAdj(i) == Mul(Mul(C(AUM), S(i, Allocation)), MeanOfPositions1To4(i))

\* the formulas of strategy row i for the entry e of LossMultiplierMap
EntryFormulas(i, e) ==
    LET label == loss_dict[e].key
        m     == loss_dict[e].value
    IN  /\ Unrounded(LimitLossName(m), i) = Mul(C(label), RiskAdj(i))
        /\ Unrounded(MoveName(m), i) =
            DivSqrt(Mul(m, S(i, Vol30d)), AsInt(S(i, DayConvention)))
        /\ Unrounded(VolMoveName(m), i) = Mul(Mul(m, C(VolFactor)), S(i, Vol30d))

RowFormulas(i) ==
    /\ Unrounded(StratScore, i) = MeanOfPositions1To4(i)
    /\ Unrounded(RiskAdjAllocation, i) = RiskAdj(i)
    /\ Unrounded(MaxDailyTheta, i) =
        Div(Mul(RiskAdj(i), C(WeeklyDecayLoss)), Div(S(i, DayConvention), Rat(52, 1)))

\* the MetricsTable row of the name of strategy row i holds the values of
\* calc_data at i, each rounded once
RoundedOnce(i) ==
    \E r \in 1 .. Len(calc_df.index) :
        /\ calc_df.index[r] = strat_df.index[i]
        /\ \A c \in 1 .. Len(calc_data) :
            calc_df.data[r][c] = Round2(calc_data[c].value[i])

\* no later entry of LossMultiplierMap has the multiplier of entry e
LastOfMultiplier(e) ==
    \A f \in (e + 1) .. Len(loss_dict) : loss_dict[f].value # loss_dict[e].value

\* no later strategy row has the name of row i
LastOfName(i) ==
    \A j \in (i + 1) .. Len(strat_df.index) : strat_df.index[j] # strat_df.index[i]

\* C7 as stated: for every strategy row and every (label, m) of
\* LossMultiplierMap the unrounded columns follow the formulas, and every
\* output value is the unrounded one rounded once.  (Stated for tables of
\* pairwise distinct strategy names, where it already fails.)
C7_FormulasEveryEntry ==
    (Computed /\ NamesDistinct) =>
        \A i \in 1 .. Len(strat_df.data) :
            /\ RowFormulas(i)
            /\ \A e \in 1 .. Len(loss_dict) : EntryFormulas(i, e)
            /\ RoundedOnce(i)

\* C7 amended: the same for every strategy row and every (label, m) of
\* LossMultiplierMap that no later label shares its multiplier with; the
\* MetricsTable row of a strategy name holds the rounded values of the last
\* strategy row of that name.
C7_FormulasLastEntry ==
    Computed =>
        \A i \in 1 .. Len(strat_df.data) :
            /\ RowFormulas(i)
            /\ \A e \in 1 .. Len(loss_dict) : LastOfMultiplier(e) => EntryFormulas(i, e)
            /\ LastOfName(i) => RoundedOnce(i)

\* C7 witness: a table with a multiplier and a strategy row whose Day
\* Convention is not a whole number (int() and the plain value differ)
C7_Witness ==
    /\ Computed
    /\ loss_dict # <<>>
    /\ \E i \in 1 .. Len(strat_df.data) :
        Rat(AsInt(S(i, DayConvention)), 1) # S(i, DayConvention)

\* the input of the worked example
C8_Input ==
    /\ choice_vals =
        <<  [key |-> Str(AUM), value |-> Num(Rat(100, 1))],
            [key |-> Str(VolFactor), value |-> Num(Rat(15, 10))],
            [key |-> Str(WeeklyDecayLoss), value |-> Num(Rat(10, 1))],
            [key |-> Str(<<"2", ".", "0", " ", "S", "D", " ", "L", "o", "s", "s">>), value |-> Num(Rat(5, 100))] >>
    /\ Len(strat_df.data) = 1
    /\ SubSeq(strat_df.data[1], 2, 5) =
        <<Num(Rat(1, 10)), Num(Rat(2, 10)), Num(Rat(3, 10)), Num(Rat(4, 10))>>
    /\ S(1, Allocation) = Rat(5, 10)
    /\ S(1, Vol30d) = Rat(2, 10)
    /\ S(1, DayConvention) = Rat(360, 1)

C8_Columns ==
    <<StratScore, RiskAdjAllocation, <<"2", ".", "0", " ", "S", "D", " ", "l", "i", "m", "i", "t", " ", "l", "o", "s", "s">>, <<"2", ".", "0", " ", "S", "D", " ", "m", "o", "v", "e">>,
      <<"2", ".", "0", " ", "S", "D", " ", "v", "o", "l", " ", "m", "o", "v", "e">>, MaxDailyTheta>>

\* C8 as stated: the row of the worked example is 0.25, 12.5, 0.63, 0.02,
\* 0.6 and 1.81.
C8_ExampleAsStated ==
    (Computed /\ C8_Input) =>
        /\ calc_df.columns = C8_Columns
        /\ calc_df.data =
            << <<Rat(25, 100), Rat(125, 10), Rat(63, 100), Rat(2, 100), Rat(6, 10),
                 Rat(181, 100)>> >>

\* C8 amended: the row of the worked example is 0.25, 12.5, 0.62 (0.625, a tie,
\* goes to the even 0.62), 0.02, 0.6 and 18.06 (12.5 * 10 / (360 / 52)).
C8_ExampleAmended ==
    (Computed /\ C8_Input) =>
        /\ calc_df.columns = C8_Columns
        /\ calc_df.data =
            << <<Rat(25, 100), Rat(125, 10), Rat(62, 100), Rat(2, 100), Rat(6, 10),
                 Rat(1806, 100)>> >>

\* C8 witness: the table of the worked example has been computed
C8_Witness == Computed /\ C8_Input /\ Len(calc_df.data) = 1

\* the multiplier of key s: the value of its first numeric substring
MultiplierOf(s) ==
    LET ab == CHOOSE ab \in (1 .. Len(s)) \X (1 .. Len(s)) : FirstNumeric(s, ab[1], ab[2])
    IN  Float(SubSeq(s, ab[1], ab[2]))

\* the keys at the ChoiceValues positions a < b carry the marker and the same
\* multiplier, and b is the last position of that multiplier
Collide(a, b) ==
    /\ a \in SdPositions /\ b \in SdPositions /\ a < b
    /\ MultiplierOf(choice_vals[a].key.s) = MultiplierOf(choice_vals[b].key.s)
    /\ \A q \in SdPositions :
        q > b => MultiplierOf(choice_vals[q].key.s) # MultiplierOf(choice_vals[b].key.s)

Count(q, x) == Cardinality({i \in 1 .. Len(q) : q[i] = x})

\* C9: when the labels L1 before L2 both carry 'sd' and give the same
\* multiplier m (L2 the last such label), LossMultiplierMap keeps both as
\* separate entries and the MetricsTable has exactly one '{m} SD limit loss',
\* one '{m} SD move' and one '{m} SD vol move' column, with the values of L2:
\* '{m} SD limit loss' is c[L2] * risk adj allocation and not
\* c[L1] * risk adj allocation.
C9_LastLabelWins ==
    Computed =>
        \A a, b \in 1 .. Len(choice_vals) :
            Collide(a, b) =>
                LET L1 == choice_vals[a].key.s
                    L2 == choice_vals[b].key.s
                    m  == MultiplierOf(L2)
                IN  /\ Count(DictKeys(loss_dict), L1) = 1
                    /\ Count(DictKeys(loss_dict), L2) = 1
                    /\ L1 # L2
                    /\ Len(loss_dict) = Cardinality(SdPositions)
                    /\ Count(calc_df.columns, LimitLossName(m)) = 1
                    /\ Count(calc_df.columns, MoveName(m)) = 1
                    /\ Count(calc_df.columns, VolMoveName(m)) = 1
                    /\ \A i \in 1 .. Len(strat_df.data) :
                        /\ Unrounded(LimitLossName(m), i) = Mul(C(L2), RiskAdj(i))
                        /\ Mul(C(L1), RiskAdj(i)) # Mul(C(L2), RiskAdj(i)) =>
                            Unrounded(LimitLossName(m), i) # Mul(C(L1), RiskAdj(i))
                        /\ LastOfName(i) =>
                            \E r \in 1 .. Len(calc_df.index) :
                                /\ calc_df.index[r] = strat_df.index[i]
                                /\ \E c \in 1 .. Len(calc_df.columns) :
                                    /\ calc_df.columns[c] = LimitLossName(m)
                                    /\ calc_df.data[r][c] = Round2(Mul(C(L2), RiskAdj(i)))

\* C9 witness: a table computed from two colliding labels of different values
C9_Witness ==
    /\ Computed
    /\ \E a, b \in 1 .. Len(choice_vals) :
        /\ Collide(a, b)
        /\ Mul(C(choice_vals[a].key.s), RiskAdj(1)) # Mul(C(choice_vals[b].key.s), RiskAdj(1))

\* the strategy row a MetricsTable row takes its values from
SourceRow(r) ==
    CHOOSE i \in 1 .. Len(strat_df.index) :
        strat_df.index[i] = calc_df.index[r] /\ LastOfName(i)

\* the value y, in hundredths
Hundredths(y) == (100 * y.n) \div y.d

\* twice the distance of 100 * x from h is at most 1 (x >= 0)
Nearest(x, h) ==
    IF x.k = 1 THEN 2 * Abs(100 * x.n - h * x.d) <= x.d
    ELSE /\ 40000 * x.n * x.n <= (2 * h + 1) * (2 * h + 1) * x.d * x.d * x.k
         /\ h >= 1 => (2 * h - 1) * (2 * h - 1) * x.d * x.d * x.k <= 40000 * x.n * x.n

\* 100 * x lies exactly halfway between h and a neighbour of h
Halfway(x, h) ==
    IF x.k = 1 THEN 2 * Abs(100 * x.n - h * x.d) = x.d
    ELSE \/ 40000 * x.n * x.n = (2 * h + 1) * (2 * h + 1) * x.d * x.d * x.k
         \/ 40000 * x.n * x.n = (2 * h - 1) * (2 * h - 1) * x.d * x.d * x.k

\* C10: every value of the MetricsTable has two decimals and is a nearest
\* 2-decimal value of the computed one; a computed value exactly halfway
\* between two 2-decimal values goes to the one whose last digit is even; and
\* rounding a value of the table again leaves it unchanged.
C10_RoundHalfEven ==
    Computed =>
        \A r \in 1 .. Len(calc_df.data), c \in 1 .. Len(calc_df.columns) :
            LET y == calc_df.data[r][c]
                x == calc_data[c].value[SourceRow(r)]
            IN  /\ y.k = 1 /\ 100 % y.d = 0
                /\ Nearest(x, Hundredths(y))
                /\ Halfway(x, Hundredths(y)) => Hundredths(y) % 2 = 0
                /\ Round2(y) = y

\* C10 witness: a table in which one halfway value went down to an even
\* digit and another went up to an even digit
C10_Witness ==
    /\ Computed
    /\ \E r \in 1 .. Len(calc_df.data), c, e \in 1 .. Len(calc_df.columns) :
        LET i == SourceRow(r)
            x == calc_data[c].value[i]
            z == calc_data[e].value[i]
        IN  /\ Halfway(x, Hundredths(calc_df.data[r][c]))
            /\ 100 * x.n > Hundredths(calc_df.data[r][c]) * x.d
            /\ Halfway(z, Hundredths(calc_df.data[r][e]))
            /\ 100 * z.n < Hundredths(calc_df.data[r][e]) * z.d

=============================================================================
